---- MODULE Spec2Model ----
(***************************************************************************)
(* Review prioritisation of insurance claims.                              *)
(*                                                                         *)
(* Selection: app/streamlit_app.py sorts the scored claims by              *)
(* priority_score and runs greedy_select over the sorted frame;            *)
(* src/score_and_optimize.py hands the same problem to an ILP solver       *)
(* (optimize_knapsack).  A claim is a row with a "Claim ID", a value       *)
(* (expected_value in score_and_optimize.py; the dashboard ranks by        *)
(* denial_prob alone, which plays the same role there) and an integer      *)
(* review_minutes.                                                         *)
(*                                                                         *)
(* Values are integers here (a probability in percent times an amount),    *)
(* so that sums and ratio comparisons are exact.                           *)
(*                                                                         *)
(* Estimators: estimate_review_minutes (both files) and estimate_recovery  *)
(* (src/score_and_optimize.py) are applied to one row of the data, read    *)
(* from the csv by the dashboard, or cleaned by src/clean_validate.py and  *)
(* scored by score_and_optimize.main.  Cells are missing, texts (sequences *)
(* of characters) or numbers.                                              *)
(*                                                                         *)
(* Spec: selection runs over frames with distinct claim ids; SpecIds: the  *)
(* same runs over frames whose claim ids are free; SpecEst: the            *)
(* estimators on one row.                                                  *)
(***************************************************************************)
EXTENDS Integers, Sequences, FiniteSets

\* ---------------------------------------------------------------- bounds

MaxClaims == 3
MaxIdClaims == 2
MaxBudget == 20
BudgetStep == 10

\* review_minutes of a claim: values inside the clip range [6, 20]
CostSet == {6, 10, 15}
\* expected_value of a claim
ValueSet == {0, 40, 50, 55}
\* "Claim ID" values, in lexicographic order
IdOrder == <<"a", "b", "c", "d">>
\* the ids the rows of a frame with free ids draw from
IdSet == {IdOrder[1], IdOrder[2]}

ClaimRows == [claim_id : IdSet, expected_value : ValueSet, review_minutes : CostSet]
Profiles == [expected_value : ValueSet, review_minutes : CostSet]

\* frames of up to MaxClaims rows, the i-th row carrying the i-th id
ClaimSets ==
    UNION {{[i \in 1..n |-> [claim_id |-> IdOrder[i],
                             expected_value |-> f[i].expected_value,
                             review_minutes |-> f[i].review_minutes]] :
                f \in [1..n -> Profiles]} : n \in 0..MaxClaims}
\* frames of up to MaxIdClaims rows whose ids are free: in any order, or repeated
IdClaimSets == UNION {[1..n -> ClaimRows] : n \in 0..MaxIdClaims}
Budgets == {b \in 0..MaxBudget : b % BudgetStep = 0}
Keys == {"ratio", "value"}

VARIABLES
    claims,     \* the data frame in input order: a sequence of ClaimRows
    budget,     \* minutes_budget / capacity
    strategy,   \* "none" | "greedy" | "exact"
    key,        \* the column the frame was sorted by ("none" before a sort)
    sorted,     \* df_sorted.index: the input positions in visiting order
    used,       \* greedy_select: used
    flags,      \* the selection flags, aligned with sorted
    phase,      \* "input" | "loop" | "done" | "stopped"
    raw,        \* one row of data/claim_data.csv: the cells the estimators read
    clean,      \* the same row in the claims_clean table
    scored,     \* the columns scoring adds to the row: denial_prob (in
                \* percent), review_minutes, estimated_recovery and
                \* expected_value = denial_prob * estimated_recovery
    est_phase   \* "idle" | "csv" | "clean" | "scored" | "app" | "raised"

selVars == <<claims, budget, strategy, key, sorted, used, flags, phase>>
estVars == <<raw, clean, scored, est_phase>>
vars == <<selVars, estVars>>

\* ---------------------------------------------------------------- helpers

RECURSIVE SumTo(_, _)
SumTo(f, n) == IF n = 0 THEN 0 ELSE f[n] + SumTo(f, n - 1)

Identity(n) == [i \in 1..n |-> i]

\* the orders in which the elements of S can be listed
RECURSIVE ListingsOf(_)
ListingsOf(S) ==
    IF S = {} THEN {<<>>}
    ELSE UNION {{<<x>> \o p : p \in ListingsOf(S \ {x})} : x \in S}

Orderings(n) == ListingsOf(1..n)

\* the review_minutes column of the frame rows taken in the order ord
Minutes(rows, ord) == [k \in 1..Len(ord) |-> rows[ord[k]].review_minutes]
Values(rows, ord) == [k \in 1..Len(ord) |-> rows[ord[k]].expected_value]

\* totals of a selection fl aligned with the order ord
TotalMinutes(rows, ord, fl) ==
    SumTo([k \in 1..Len(fl) |-> IF fl[k] THEN rows[ord[k]].review_minutes ELSE 0], Len(fl))
TotalValue(rows, ord, fl) ==
    SumTo([k \in 1..Len(fl) |-> IF fl[k] THEN rows[ord[k]].expected_value ELSE 0], Len(fl))
SelectedRows(ord, fl) == {ord[k] : k \in {j \in 1..Len(fl) : fl[j]}}

\* ---------------------------------------------------------------- ranking

\* df["review_minutes"].replace(0, 1): the divisor of the priority score
Divisor(m) == IF m = 0 THEN 1 ELSE m

\* RatioGE with a fault: the sort made ascending (ascending=True)
RatioGE_Ascending(a, b) ==
    a.expected_value * Divisor(b.review_minutes)
        <= b.expected_value * Divisor(a.review_minutes)

\* priority_score = value / review_minutes.replace(0, 1), compared exactly:
\* score(a) >= score(b), by cross-multiplication of the positive divisors
RatioGE(a, b) ==
    a.expected_value * Divisor(b.review_minutes)
        >= b.expected_value * Divisor(a.review_minutes)

\* the plain expected_value column as the sort key
ValueGE(a, b) == a.expected_value >= b.expected_value

KeyGE(k, a, b) == IF k = "ratio" THEN RatioGE(a, b) ELSE ValueGE(a, b)

\* sort_values(<key>, ascending=False): the frame's rows in descending key
\* order.  The default sort kind is not stable, so rows with equal keys may
\* come out in any order.
sort_values(rows, k) ==
    {p \in Orderings(Len(rows)) :
        \A i, j \in 1..Len(rows) : i < j => KeyGE(k, rows[p[i]], rows[p[j]])}

\* ---------------------------------------------------------------- greedy_select

\* Fits with a fault: the test forgets the minutes of the claim at hand
Fits_IgnoringClaim(u, m, minutes_budget) == u <= minutes_budget

\* Fits with a fault: the first claim taken is not tested against the budget
Fits_FirstClaimFree(u, m, minutes_budget) == u = 0 \/ u + m <= minutes_budget

\* the test of the loop body: the claim fits in what is left of the budget
Fits(u, m, minutes_budget) == u + m <= minutes_budget

\* LoopBody with a fault: a claim that does not fit ends the selecting (the
\* budget is taken as used up)
LoopBody_StopAtMisfit(u, fl, m, minutes_budget) ==
    IF Fits(u, m, minutes_budget)
    THEN <<u + m, Append(fl, TRUE)>>
    ELSE <<minutes_budget, Append(fl, FALSE)>>

\* one iteration of the loop over review_minutes: <<used, flags>> after it
LoopBody(u, fl, m, minutes_budget) ==
    IF Fits(u, m, minutes_budget)
    THEN <<u + m, Append(fl, TRUE)>>
    ELSE <<u, Append(fl, FALSE)>>

\* the loop over the first n entries of the minutes list mins
RECURSIVE GreedyLoop(_, _, _)
GreedyLoop(mins, n, minutes_budget) ==
    IF n = 0 THEN <<0, <<>> >>
    ELSE LET before == GreedyLoop(mins, n - 1, minutes_budget)
         IN  LoopBody(before[1], before[2], mins[n], minutes_budget)

\* greedy_select(df_sorted, minutes_budget): the flags, aligned with df_sorted
greedy_select(mins, minutes_budget) == GreedyLoop(mins, Len(mins), minutes_budget)[2]

\* ---------------------------------------------------------------- optimize_knapsack

\* x = LpVariable.dicts("x", range(n), cat="Binary")
BinaryVars(n) == [1..n -> {0, 1}]

\* pulp.lpSum(coef[i] * x[i] for i in range(n))
lpSum(coef, x) == SumTo([i \in 1..Len(coef) |-> coef[i] * x[i]], Len(coef))

\* CapacityConstraint with a fault: a strict bound
CapacityConstraint_Strict(minutes, x, capacity) == lpSum(minutes, x) < capacity

\* prob += lpSum(minutes[i] * x[i]) <= int(capacity)
CapacityConstraint(minutes, x, capacity) == lpSum(minutes, x) <= capacity

\* Objective with a fault: the number of claims is maximised instead of the value
Objective_Count(expected_value, x) == lpSum([i \in 1..Len(expected_value) |-> 1], x)

\* prob += lpSum(expected_value[i] * x[i]): the objective
Objective(expected_value, x) == lpSum(expected_value, x)

\* LpProblem(..., LpMaximize) solved by CBC: the solver returns an optimal
\* point of the program (a feasible point <<x, objective>> of the greatest
\* objective); which one, when several are optimal, is the solver's choice
ArgMax(points) ==
    {p[1] : p \in {q \in points : \A r \in points : r[2] <= q[2]}}

Solve(expected_value, minutes, capacity) ==
    ArgMax({<<x, Objective(expected_value, x)>> :
                x \in {y \in BinaryVars(Len(expected_value)) :
                            CapacityConstraint(minutes, y, capacity)}})

\* np.array([pulp.value(x[i]) ...]) > 0.5, for every solution the solver may return
optimize_knapsack(expected_value, minutes, capacity) ==
    {[i \in 1..Len(expected_value) |-> x[i] = 1] :
        x \in Solve(expected_value, minutes, capacity)}

\* ---------------------------------------------------------------- cells and strings

\* A cell of the frame: a missing value (NaN), a text (a sequence of
\* characters) or a number.
NaN == [kind |-> "nan", text |-> <<>>, num |-> 0]
Text(s) == [kind |-> "text", text |-> s, num |-> 0]
Num(n) == [kind |-> "num", text |-> <<>>, num |-> n]

UpperLetters == <<"A", "B", "C", "D", "E", "F", "G", "H", "I", "J", "K", "L", "M", "N", "O", "P", "Q", "R", "S", "T", "U", "V", "W", "X", "Y", "Z">>
LowerLetters == <<"a", "b", "c", "d", "e", "f", "g", "h", "i", "j", "k", "l", "m", "n", "o", "p", "q", "r", "s", "t", "u", "v", "w", "x", "y", "z">>
DigitChars == <<"0", "1", "2", "3", "4", "5", "6", "7", "8", "9">>

Range(f) == {f[i] : i \in DOMAIN f}

\* str.lower() of one character
LowerChar(c) ==
    IF c \in Range(UpperLetters)
    THEN LowerLetters[CHOOSE i \in DOMAIN UpperLetters : UpperLetters[i] = c]
    ELSE c

\* Series.str.lower()
str_lower(s) == [i \in 1..Len(s) |-> LowerChar(s[i])]

\* Series.str.strip(): leading and trailing blanks removed
RECURSIVE str_strip(_)
str_strip(s) ==
    IF s = <<>> THEN s
    ELSE IF Head(s) = " " THEN str_strip(Tail(s))
    ELSE IF s[Len(s)] = " " THEN str_strip(SubSeq(s, 1, Len(s) - 1))
    ELSE s

\* Series.astype(str) of a text or missing cell: a missing value reads "nan"
astype_str(cell) == IF cell.kind = "nan" THEN <<"n", "a", "n">> ELSE cell.text

\* whether pat occurs in s, the characters compared as they are
Occurs(pat, s) ==
    \E i \in 0..(Len(s) - Len(pat)) : SubSeq(s, i + 1, i + Len(pat)) = pat

\* str_contains_nocase with a fault: the match made case-sensitive (case=True)
str_contains_case(s, pat) == Occurs(pat, s)

\* Series.str.contains(pat, case=False, na=False) of a string
str_contains_nocase(s, pat) == Occurs(str_lower(pat), str_lower(s))

\* the decimal number a run of digits stands for
RECURSIVE ParseDigits(_)
ParseDigits(s) ==
    IF s = <<>> THEN 0
    ELSE 10 * ParseDigits(SubSeq(s, 1, Len(s) - 1))
         + ((CHOOSE i \in DOMAIN DigitChars : DigitChars[i] = s[Len(s)]) - 1)

IsDigits(s) == s # <<>> /\ \A i \in 1..Len(s) : s[i] \in Range(DigitChars)

\* pd.to_numeric(cell, errors="coerce"): a number stays, a text is parsed
\* (an optional sign and digits), anything else becomes NaN
to_numeric(cell) ==
    IF cell.kind = "num" THEN cell
    ELSE IF cell.kind = "nan" THEN NaN
    ELSE LET t == str_strip(cell.text)
         IN  IF IsDigits(t) THEN Num(ParseDigits(t))
             ELSE IF t # <<>> /\ Head(t) = "-" /\ IsDigits(Tail(t))
                  THEN Num(0 - ParseDigits(Tail(t)))
                  ELSE NaN

\* Series.fillna(v): the number of the cell, v when it is missing
fillna(cell, v) == IF cell.kind = "num" THEN cell.num ELSE v

\* clip_lower with a fault: the bound applied from above (clip(upper=0))
clip_upper(x, hi) == IF x > hi THEN hi ELSE x

\* Series.clip(lower=lo) of a number
clip_lower(x, lo) == IF x < lo THEN lo ELSE x

\* Series.clip(lower=lo) of a cell: NaN stays NaN
clip_lower_cell(cell, lo) ==
    IF cell.kind = "num" THEN Num(clip_lower(cell.num, lo)) ELSE cell

\* np.clip(base, lo, hi)
np_clip(x, lo, hi) == IF x < lo THEN lo ELSE IF x > hi THEN hi ELSE x

\* ---------------------------------------------------------------- estimators

BaseMinutes == 10
CommercialMinutes == 3
FollowupMinutes == 2
MinMinutes == 6
MaxMinutes == 20

Commercial == <<"C", "o", "m", "m", "e", "r", "c", "i", "a", "l">>
FollowupWords == {<<"y", "e", "s">>, <<"y">>, <<"t", "r", "u", "e">>, <<"1">>}

\* clean_validate: followup_flag = Follow-up Required, as a string, stripped
\* and lowered, is one of yes / y / true / 1; as an integer
followup_flag(cell) ==
    IF str_lower(str_strip(astype_str(cell))) \in FollowupWords THEN Num(1) ELSE Num(0)

\* clean_validate on one row: the string columns stripped, the amounts made
\* numeric and clipped at 0, followup_flag added
clean_validate(r) ==
    [payer |-> Text(str_strip(astype_str(r.payer))),
     followup |-> Text(str_strip(astype_str(r.followup))),
     allowed |-> clip_lower_cell(to_numeric(r.allowed), 0),
     paid |-> clip_lower_cell(to_numeric(r.paid), 0),
     followup_flag |-> followup_flag(r.followup)]

\* Series.astype(int) of a cell can be taken only of a number
CanCastInt(cell) == cell.kind = "num"

\* the bonus of a commercial payer: Insurance Type, as a string, contains
\* "Commercial" whatever the case
CommercialBonus(payer) ==
    IF str_contains_nocase(astype_str(payer), Commercial) THEN CommercialMinutes ELSE 0

\* score_and_optimize.estimate_review_minutes of a cleaned row
estimate_review_minutes(c) ==
    np_clip(BaseMinutes + CommercialBonus(c.payer) + c.followup_flag.num * FollowupMinutes,
            MinMinutes, MaxMinutes)

\* streamlit_app.estimate_review_minutes of a csv row: the follow-up bonus is
\* given when Follow-up Required, as a string, lowered, equals "yes"
app_estimate_review_minutes(r) ==
    np_clip(BaseMinutes + CommercialBonus(r.payer)
              + (IF str_lower(astype_str(r.followup)) = <<"y", "e", "s">> THEN 1 ELSE 0) * FollowupMinutes,
            MinMinutes, MaxMinutes)

\* estimate_recovery of a cleaned row
estimate_recovery(c) ==
    LET allowed == fillna(to_numeric(c.allowed), 0)
        paid == fillna(to_numeric(c.paid), 0)
    IN  clip_lower(allowed - paid, 0)

\* the sampled cells of a csv row
PayerCells ==
    {NaN, Text(<<>>), Text(<<"C", "o", "m", "m", "e", "r", "c", "i", "a", "l">>), Text(<<"C", "O", "M", "M", "E", "R", "C", "I", "A", "L">>),
     Text(<<"M", "e", "d", "i", "c", "a", "r", "e">>), Text(<<"S", "e", "l", "f", "-", "P", "a", "y">>)}
FollowupCells ==
    {NaN, Text(<<>>), Text(<<"Y", "e", "s">>), Text(<<"y", "e", "s">>), Text(<<"N", "o">>), Text(<<"Y">>),
     Text(<<" ", "y", "e", "s", " ">>)}
AmountCells ==
    {NaN, Num(0), Num(50), Num(120), Num(0 - 20), Text(<<"8", "0">>), Text(<<"n", "/", "a">>)}
ProbPercents == {0, 50, 100}

CsvRows == [payer : PayerCells, followup : FollowupCells,
            allowed : AmountCells, paid : AmountCells]

\* before cleaning and scoring, the cleaned row and the scoring columns are
\* blank
IdleClean == [payer |-> NaN, followup |-> NaN, allowed |-> NaN, paid |-> NaN,
              followup_flag |-> Num(0)]
IdleScored == [denial_prob |-> 0, review_minutes |-> 0,
               estimated_recovery |-> 0, expected_value |-> 0]

\* no row is being estimated
NoRow == <<>>

EstIdle ==
    /\ raw = NoRow
    /\ clean = NoRow
    /\ scored = NoRow
    /\ est_phase = "idle"

\* ---------------------------------------------------------------- actions

Init ==
    /\ claims \in ClaimSets
    /\ budget \in Budgets
    /\ strategy = "none"
    /\ key = "none"
    /\ sorted = <<>>
    /\ used = 0
    /\ flags = <<>>
    /\ phase = "input"
    /\ EstIdle

\* the dashboard on an empty filtered frame: st.warning(...); st.stop()
StopEmpty ==
    /\ phase = "input"
    /\ Len(claims) = 0
    /\ phase' = "stopped"
    /\ UNCHANGED <<claims, budget, strategy, key, sorted, used, flags>>
    /\ UNCHANGED estVars

\* df_f.sort_values(<key>, ascending=False), then greedy_select is entered:
\* used = 0, flags = []
SortValues ==
    /\ phase = "input"
    /\ Len(claims) > 0
    /\ \E k \in Keys : \E p \in sort_values(claims, k) :
        /\ key' = k
        /\ sorted' = p
    /\ strategy' = "greedy"
    /\ used' = 0
    /\ flags' = <<>>
    /\ phase' = "loop"
    /\ UNCHANGED <<claims, budget>>
    /\ UNCHANGED estVars

\* one iteration of greedy_select's for loop
GreedyStep ==
    /\ phase = "loop"
    /\ Len(flags) < Len(sorted)
    /\ LET m == claims[sorted[Len(flags) + 1]].review_minutes
           after == LoopBody(used, flags, m, budget)
       IN  /\ used' = after[1]
           /\ flags' = after[2]
    /\ UNCHANGED <<claims, budget, strategy, key, sorted, phase>>
    /\ UNCHANGED estVars

\* return pd.Series(flags, index=df_sorted.index)
GreedyReturn ==
    /\ phase = "loop"
    /\ Len(flags) = Len(sorted)
    /\ phase' = "done"
    /\ UNCHANGED <<claims, budget, strategy, key, sorted, used, flags>>
    /\ UNCHANGED estVars

\* main: selected_for_review = optimize_knapsack(expected_value, review_minutes,
\* total_minutes), the flags aligned with the frame's own order
OptimizeKnapsack ==
    /\ phase = "input"
    /\ sorted' = Identity(Len(claims))
    /\ flags' \in optimize_knapsack(Values(claims, Identity(Len(claims))),
                                    Minutes(claims, Identity(Len(claims))), budget)
    /\ strategy' = "exact"
    /\ phase' = "done"
    /\ UNCHANGED <<claims, budget, key, used>>
    /\ UNCHANGED estVars

Next ==
    \/ StopEmpty
    \/ SortValues
    \/ GreedyStep
    \/ GreedyReturn
    \/ OptimizeKnapsack

Spec == Init /\ [][Next]_vars

\* the same runs over frames whose "Claim ID" column is free
InitIds ==
    /\ claims \in IdClaimSets
    /\ budget \in Budgets
    /\ strategy = "none"
    /\ key = "none"
    /\ sorted = <<>>
    /\ used = 0
    /\ flags = <<>>
    /\ phase = "input"
    /\ EstIdle

SpecIds == InitIds /\ [][Next]_vars

\* ---------------------------------------------------------------- estimator actions

SelIdle ==
    /\ claims = <<>>
    /\ budget = 0
    /\ strategy = "none"
    /\ key = "none"
    /\ sorted = <<>>
    /\ used = 0
    /\ flags = <<>>
    /\ phase = "stopped"

EstInit ==
    /\ SelIdle
    /\ raw \in CsvRows
    /\ clean = IdleClean
    /\ scored = IdleScored
    /\ est_phase = "csv"

\* clean_validate.main: claims_raw is cleaned into claims_clean
CleanValidate ==
    /\ est_phase = "csv"
    /\ clean' = clean_validate(raw)
    /\ est_phase' = "clean"
    /\ UNCHANGED <<raw, scored>>
    /\ UNCHANGED selVars

\* score_and_optimize.main on a row of claims_clean: denial_prob,
\* review_minutes, estimated_recovery, expected_value.  The cast of
\* followup_flag to int raises on a cell that is no number.
Score ==
    /\ est_phase = "clean"
    /\ IF CanCastInt(clean.followup_flag)
       THEN /\ \E pr \in ProbPercents :
                  scored' = [denial_prob |-> pr,
                             review_minutes |-> estimate_review_minutes(clean),
                             estimated_recovery |-> estimate_recovery(clean),
                             expected_value |-> pr * estimate_recovery(clean)]
            /\ est_phase' = "scored"
       ELSE /\ est_phase' = "raised"
            /\ UNCHANGED scored
    /\ UNCHANGED <<raw, clean>>
    /\ UNCHANGED selVars

\* the dashboard on a row of the csv: denial_prob and review_minutes
AppEstimate ==
    /\ est_phase = "csv"
    /\ \E pr \in ProbPercents :
          scored' = [scored EXCEPT !.denial_prob = pr,
                                   !.review_minutes = app_estimate_review_minutes(raw)]
    /\ est_phase' = "app"
    /\ UNCHANGED <<raw, clean>>
    /\ UNCHANGED selVars

EstNext ==
    \/ CleanValidate
    \/ Score
    \/ AppEstimate

SpecEst == EstInit /\ [][EstNext]_vars

\* ---------------------------------------------------------------- reference notions

RECURSIVE SetSum(_, _)
SetSum(f, S) ==
    IF S = {} THEN 0
    ELSE LET e == CHOOSE e \in S : TRUE IN f[e] + SetSum(f, S \ {e})

SubsetMinutes(rows, S) == SetSum([i \in 1..Len(rows) |-> rows[i].review_minutes], S)
SubsetValue(rows, S) == SetSum([i \in 1..Len(rows) |-> rows[i].expected_value], S)

\* the subsets of the claims whose minutes are within b
FeasibleSubsets(rows, b) == {S \in SUBSET (1..Len(rows)) : SubsetMinutes(rows, S) <= b}

\* the feasible subsets of the greatest value
BestSubsets(rows, b) ==
    {S \in FeasibleSubsets(rows, b) :
        \A T \in FeasibleSubsets(rows, b) : SubsetValue(rows, T) <= SubsetValue(rows, S)}

\* the value the greedy pass achieves over the same visiting order with budget b
GreedyValueAt(b) ==
    TotalValue(claims, sorted, greedy_select(Minutes(claims, sorted), b))

\* the values the solver's answers achieve with capacity b
ExactValuesAt(b) ==
    {TotalValue(claims, Identity(Len(claims)), fl) :
        fl \in optimize_knapsack(Values(claims, Identity(Len(claims))),
                                 Minutes(claims, Identity(Len(claims))), b)}

AchievedValue == TotalValue(claims, sorted, flags)
SelectedMinutes == TotalMinutes(claims, sorted, flags)

GreedyDone == phase = "done" /\ strategy = "greedy"
ExactDone == phase = "done" /\ strategy = "exact"

\* ---------------------------------------------------------------- claims

\* C1: whatever the strategy and the visiting order, the minutes of the
\* selected claims never exceed the budget (during the greedy pass and in
\* every returned selection).
C1_Feasible ==
    phase \in {"loop", "done"} => SelectedMinutes <= budget /\ used <= budget

\* C1 witness: a greedy pass has returned, a claim was left out because it
\* did not fit, and a later claim was still selected.
C1_Witness ==
    /\ GreedyDone
    /\ \E i, j \in 1..Len(flags) : i < j /\ ~flags[i] /\ flags[j]

\* C2: the value of the selection optimize_knapsack returns is the greatest
\* value of any subset of the claims whose minutes are within the budget.
C2_ExactOptimal ==
    ExactDone =>
        \A S \in BestSubsets(claims, budget) : AchievedValue = SubsetValue(claims, S)

\* C2 witness: A(10 min, 50), B(10 min, 40), C(15 min, 55) with budget 20:
\* {A, B} is returned, with value 90.
C2_Witness ==
    /\ ExactDone
    /\ budget = 20
    /\ Len(claims) = 3
    /\ Minutes(claims, Identity(3)) = <<10, 10, 15>>
    /\ Values(claims, Identity(3)) = <<50, 40, 55>>
    /\ flags = <<TRUE, TRUE, FALSE>>
    /\ AchievedValue = 90

\* C3: the value a greedy pass achieves, under either sort key and any order
\* of equal keys, is at most the value the exact strategy achieves on the
\* same claims and budget.
C3_GreedyLeExact ==
    GreedyDone => \A v \in ExactValuesAt(budget) : AchievedValue <= v

\* C3 witness: a greedy pass by ratio that achieves strictly less than the
\* exact strategy.
C3_Witness ==
    /\ GreedyDone
    /\ key = "ratio"
    /\ \E v \in ExactValuesAt(budget) : AchievedValue < v

\* the ids of the claims a selection holds
SelectedIds(ord, fl) == {claims[i].claim_id : i \in SelectedRows(ord, fl)}

IdRank(id) == CHOOSE r \in 1..Len(IdOrder) : IdOrder[r] = id

UniqueIds(rows) ==
    \A i, j \in 1..Len(rows) : i # j => rows[i].claim_id # rows[j].claim_id

\* a comes before b in the documented order: greater key first; on equal
\* keys the lower cost first, then the smaller claim_id
CanonicalBefore(k, a, b) ==
    \/ ~KeyGE(k, b, a)
    \/ /\ KeyGE(k, a, b) /\ KeyGE(k, b, a)
       /\ \/ a.review_minutes < b.review_minutes
          \/ /\ a.review_minutes = b.review_minutes
             /\ IdRank(a.claim_id) < IdRank(b.claim_id)

CanonicalOrders(rows, k) ==
    {p \in Orderings(Len(rows)) :
        \A i, j \in 1..Len(rows) : i < j => CanonicalBefore(k, rows[p[i]], rows[p[j]])}

\* C4 (as stated): raising the budget never lowers the achieved value, for
\* the exact strategy and for the greedy pass under both sort keys (the
\* claims visited in the documented order).
C4_MonotoneBothKeys ==
    /\ (GreedyDone /\ sorted \in CanonicalOrders(claims, key)) => \A b \in 0..budget : GreedyValueAt(b) <= AchievedValue
    /\ ExactDone => \A b \in 0..budget : \A v \in ExactValuesAt(b) : v <= AchievedValue

\* C4 (amended): raising the budget never lowers the achieved value, for the
\* exact strategy and for the greedy pass over claims sorted by value per
\* minute.
C4_MonotoneExactAndRatio ==
    /\ (GreedyDone /\ key = "ratio") =>
            \A b \in 0..budget : GreedyValueAt(b) <= AchievedValue
    /\ ExactDone => \A b \in 0..budget : \A v \in ExactValuesAt(b) : v <= AchievedValue

\* C4 witness: a greedy pass by ratio that skipped a claim, and a smaller
\* budget with which the same pass achieves strictly less.
C4_Witness ==
    /\ GreedyDone
    /\ key = "ratio"
    /\ \E i \in 1..Len(flags) : ~flags[i]
    /\ \E b \in 1..budget : 0 < GreedyValueAt(b) /\ GreedyValueAt(b) < AchievedValue

\* C5 (as stated): the greedy selection does not depend on the order in which
\* the claims are supplied: it is the selection of the pass that visits the
\* claims by descending key, on equal keys the lower cost first, then the
\* smaller claim_id.
C5_OrderIndependent ==
    (GreedyDone /\ UniqueIds(claims)) =>
        \A p \in CanonicalOrders(claims, key) :
            SelectedIds(sorted, flags)
                = SelectedIds(p, greedy_select(Minutes(claims, p), budget))

\* C6 (as stated): a claim set in which two claims share a claim_id is
\* rejected: no selection is returned for it, by either strategy.
C6_InvalidInputRejected ==
    phase = "done" => UniqueIds(claims)

\* C7 (as stated): among the feasible selections of the greatest value, the
\* exact strategy returns one of the fewest minutes.
C7_MinimalMinutes ==
    ExactDone =>
        \A S \in BestSubsets(claims, budget) : SelectedMinutes <= SubsetMinutes(claims, S)

\* the sampled payer cells that name a commercial payer, in any case
CommercialPayers == {Text(<<"C", "o", "m", "m", "e", "r", "c", "i", "a", "l">>), Text(<<"C", "O", "M", "M", "E", "R", "C", "I", "A", "L">>)}
\* the sampled follow-up cells that say yes, and those that say nothing or no
FollowupYes == {Text(<<"Y", "e", "s">>), Text(<<"y", "e", "s">>)}
FollowupAbsent == {NaN, Text(<<>>), Text(<<"N", "o">>)}
\* the sampled amount cells that hold no number
AmountAbsent == {NaN, Text(<<"n", "/", "a">>)}

Estimated == est_phase \in {"scored", "app"}

AmountOrZero(cell) == IF cell.kind = "num" THEN cell.num ELSE 0

\* C10: the recovery is the allowed amount less the paid amount, a missing or
\* unreadable amount counting as 0, and never below 0; the expected value is
\* the denial probability times the recovery, never negative and 0 when
\* either factor is 0; no row makes the estimator raise.
C10_ValueEstimate ==
    /\ est_phase # "raised"
    /\ est_phase = "scored" =>
        LET a == AmountOrZero(clean.allowed)
            p == AmountOrZero(clean.paid)
        IN  /\ a >= p => scored.estimated_recovery = a - p
            /\ a < p => scored.estimated_recovery = 0
            /\ raw.allowed \in AmountAbsent => scored.estimated_recovery = 0
            /\ raw.paid \in AmountAbsent => scored.estimated_recovery = a
            /\ scored.expected_value = scored.denial_prob * scored.estimated_recovery
            /\ scored.expected_value >= 0
            /\ (scored.denial_prob = 0 \/ scored.estimated_recovery = 0)
                    => scored.expected_value = 0

\* C10 witness: a row with an allowed amount of 120 and an unreadable paid
\* amount is scored with probability one half: recovery 120, value 60.
C10_Witness ==
    /\ est_phase = "scored"
    /\ raw.allowed = Num(120)
    /\ raw.paid = Text(<<"n", "/", "a">>)
    /\ scored.denial_prob = 50
    /\ scored.estimated_recovery = 120
    /\ scored.expected_value = 6000

\* the claims all cost at least one minute
PositiveCosts(rows) == \A i \in 1..Len(rows) : rows[i].review_minutes > 0

NoneSelected(fl) == \A k \in 1..Len(fl) : ~fl[k]

\* C11: with a budget of 0 minutes and claims of positive cost, the greedy
\* pass selects nothing at any point and uses no minutes, and the selection
\* either strategy returns has one flag per claim, none of them set, and the
\* value 0.
C11_ZeroBudget ==
    (budget = 0 /\ PositiveCosts(claims)) =>
        /\ phase \in {"loop", "done"} => NoneSelected(flags) /\ used = 0
        /\ phase = "done" =>
                /\ Len(flags) = Len(claims)
                /\ SelectedRows(sorted, flags) = {}
                /\ AchievedValue = 0
                /\ SelectedMinutes = 0

\* C11 witness: the exact strategy has returned for three claims of positive
\* value with capacity 0, and no claim is selected.
C11_Witness ==
    /\ ExactDone
    /\ budget = 0
    /\ Len(claims) = MaxClaims
    /\ \A i \in 1..Len(claims) : claims[i].expected_value > 0
    /\ flags = [i \in 1..MaxClaims |-> FALSE]

\* the cost of the claim visited k-th
CostAt(k) == claims[sorted[k]].review_minutes

\* the minutes of the claims selected among the first k visited
UsedBefore(k) ==
    SumTo([j \in 1..Len(flags) |-> IF flags[j] THEN CostAt(j) ELSE 0], k)

InGreedy == strategy = "greedy" /\ phase \in {"loop", "done"}

\* the state of a pass: the claims are visited in an order that lists every
\* input position once, there is a flag for each claim visited so far (for
\* each claim, once returned), used is the sum of the costs of the claims
\* selected so far, and the k-th claim visited is selected exactly when it
\* fitted on top of the claims selected before it
PassState ==
    InGreedy =>
        /\ Len(sorted) = Len(claims)
        /\ {sorted[k] : k \in 1..Len(sorted)} = 1..Len(claims)
        /\ Len(flags) <= Len(sorted)
        /\ phase = "done" => Len(flags) = Len(sorted)
        /\ used = UsedBefore(Len(flags))
        /\ \A k \in 1..Len(flags) :
                flags[k] <=> UsedBefore(k - 1) + CostAt(k) <= budget

\* a step of a pass: the order, the claims and the budget stay, the flags
\* given so far stay, and at most one flag is added, for the next claim in
\* the order: TRUE with its cost added to used when used + cost <= budget,
\* FALSE with used left alone otherwise
PassStep ==
    (InGreedy /\ strategy' = "greedy") =>
        /\ sorted' = sorted /\ claims' = claims /\ budget' = budget
        /\ \/ flags' = flags /\ used' = used
           \/ /\ Len(flags) < Len(sorted)
              /\ used + CostAt(Len(flags) + 1) <= budget
              /\ flags' = Append(flags, TRUE)
              /\ used' = used + CostAt(Len(flags) + 1)
           \/ /\ Len(flags) < Len(sorted)
              /\ used + CostAt(Len(flags) + 1) > budget
              /\ flags' = Append(flags, FALSE)
              /\ used' = used

\* C12: greedy_select is a single forward pass over the sorted claims: used
\* is always the sum of the costs of the claims selected so far; the claim
\* at hand is selected exactly when used + cost <= budget, and its cost is
\* then added to used; a claim that does not fit gets the flag FALSE, leaves
\* used alone, does not end the pass, and its flag is never changed later;
\* the result has one flag per claim, aligned with the frame's index.
C12_ForwardPass == [](PassState) /\ [][PassStep]_vars

\* C12 witness: a pass over three claims has returned with the second claim
\* visited left out because it did not fit and the third, which fitted,
\* selected after it.
C12_Witness ==
    /\ GreedyDone
    /\ Len(flags) = 3
    /\ flags = <<TRUE, FALSE, TRUE>>
    /\ used = CostAt(1) + CostAt(3)
    /\ used + CostAt(2) > budget

====
